---- MODULE Spec2Model ----
(***************************************************************************)
(* whisper-dictation: the voice-activity-gated capture loop (record_once   *)
(* and the voice loop of dictate_min.py), the push-to-talk recorder        *)
(* (PushToTalkRecorder of dictate_min.py and dictate.py), the hotkey       *)
(* handlers of both scripts and the transcription jobs they dispatch.      *)
(*                                                                         *)
(* Time is in milliseconds.  A block is a record [seq, amp]: seq is its    *)
(* position in processing/delivery order, amp the amplitude of its int16   *)
(* samples (a block of constant amplitude), 0 for silence and for the      *)
(* synthetic zero-filled block.                                            *)
(***************************************************************************)
EXTENDS Integers, Sequences, FiniteSets, TLC

\* ---------------------------------------------------------------- constants
\* block_ms = 50 (dictate_min.py:91)
block_ms == 50
\* q.get(timeout=1.0) (dictate_min.py:111), in ms
get_timeout_ms == 1000
\* argparse defaults (dictate_min.py:283-285)
default_min_speech_ms == 400
default_silence_stop_ms == 1500
default_max_ms == 20000
\* --silence-rms default 0.008 (dictate_min.py:282) in units of 1/32768:
\* the least |amp| of a constant block whose rms_level is >= 0.008
\* (262/32768 < 0.008 <= 263/32768)
silence_rms == 263
\* last_voice_ts = None (dictate_min.py:88)
NoneTs == -1
\* x = block.astype(np.float32) / 32768.0 (dictate_min.py:71): levels and
\* normalised samples are counted in units of 1/32768, so that 1.0 is
Int16Scale == 32768
\* rms_level has not returned
NoLevel == -1

\* ------------------------------------------------------------------- bounds
\* record_once calls of one run of the voice loop
MaxSessions == 3
\* audio callback invocations of one run in hotkey mode
MaxCaptured == 3
\* PushToTalkRecorder.start() calls of one run in hotkey mode
MaxStarts == 2
\* max_ms of the small configuration, in blocks
SmallMaxBlocks == 7
\* silence_ms_to_stop of the small configuration, in blocks
SmallSilenceBlocks == 2
\* min_speech_ms of the small configuration, in blocks
SmallMinBlocks == 4
\* frames_per_block (dictate_min.py:92): the samples of one block
FramesPerBlock == 2

VARIABLES
    trigger,        \* "voice" | "key": args.trigger (dictate_min.py:313); dictate.py is "key"
    feed,           \* which input the microphone delivers (a script name or "free")
    cfg,            \* [min_speech_ms, silence_ms_to_stop, max_ms]
    pc,             \* capture loop: "listening" | "stopped" | "idle"
    session,        \* number of the current record_once call
    fed,            \* blocks processed so far by record_once (all sessions)
    started, last_voice_ts, t0, now, collected, speech_ms,   \* record_once locals
    stop_reason,    \* which break ended the loop: "none" | "silence" | "max"
    results,        \* what each record_once / stop() call returned: 0 (None) or a wav id
    wavs,           \* temporary artifacts, by id: [blocks, samples, exists]
    jobs,           \* transcription jobs, by start order:
                    \* [wav, pc, outcome, injected, typed, sync]
    script,         \* hotkey mode: "min" (dictate_min.py) | "full" (dictate.py)
    mode,           \* args.mode: "hold" | "toggle"
    opts,           \* "default" | "no_trailing" (--no-trailing-space) | "print_only" (--print-only)
    flag,           \* PushToTalkRecorder._flag
    q,              \* PushToTalkRecorder._q
    rec_active,     \* rec_active["v"] (dictate_min.py:402)
    starts,         \* calls of PushToTalkRecorder.start() so far
    captured,       \* invocations of the audio callback so far
    cb_pc,          \* audio callback thread: "idle" | "put" (flag read as set, block not yet queued)
    cb_block,       \* indata of the callback invocation in progress
    l_pc,           \* keyboard listener thread: "idle" | "start" | "stop" | "drain" | "job" |
                    \* "ended" (a handler returned False) | "dead" (an exception left a handler)
    chunks,         \* local of stop()
    last_key,       \* the hotkey event the listener handled last: "none" | "press" |
                    \* "repeat" (a press in hold mode while recording) | "release"
    proc,           \* the process: "running", or how it ended: "interrupt" | "sigterm" |
                    \* "esc" | "crashed" (an exception left main)
    stream,         \* the sd.InputStream handle: "open" | "closed"
    main_pc,        \* main thread in hotkey mode: "setup" (recorder built, listener not
                    \* yet joined) | "join" (inside the try around listener.join())
    rms_in,         \* rms_level on its own: the block it is called with
    rms_out         \* ... and the level it returned, NoLevel before the call

envVars == <<trigger, feed, cfg, script, mode, opts>>
recVars == <<pc, session, fed, started, last_voice_ts, t0, now, collected, speech_ms,
             stop_reason>>
outVars == <<results, wavs, jobs>>
pttVars == <<flag, q, rec_active, starts, captured, cb_pc, cb_block>>
lVars   == <<l_pc, chunks, last_key>>
procVars == <<proc, stream, main_pc>>
rmsVars == <<rms_in, rms_out>>

vars == <<envVars, recVars, outVars, pttVars, lVars, procVars, rmsVars>>

\* ------------------------------------------------------------------- inputs
LoudAmp == silence_rms
QuietAmp == silence_rms - 1

\* One delivery: a microphone block of amplitude amp arriving dt ms after the
\* previous loop iteration, or (synthetic) the queue.Empty timeout.
Mic(amp) == [amp |-> amp, dt |-> block_ms, synthetic |-> FALSE, status |-> FALSE]

\* The same block handed over with a driver status (overrun, underrun)
MicStatus(amp) == [Mic(amp) EXCEPT !.status = TRUE]

\* q.get(timeout=1.0) raised queue.Empty: block = np.zeros(...)
Starved == [amp |-> 0, dt |-> get_timeout_ms, synthetic |-> TRUE, status |-> FALSE]

\* 3 silent, 10 loud, 40 silent blocks at cadence
Script_s3_l10_s40 == [i \in 1..53 |-> IF i \in 4..13 THEN Mic(LoudAmp) ELSE Mic(0)]

\* 2 loud blocks (100 ms) followed by silence, at cadence
Script_l2_silence == [i \in 1..40 |-> IF i \in 1..2 THEN Mic(LoudAmp) ELSE Mic(0)]

\* 2 loud blocks and then a driver that delivers nothing
Script_l2_starved == [i \in 1..6 |-> IF i \in 1..2 THEN Mic(LoudAmp) ELSE Starved]

\* an uninterrupted run of loud blocks at cadence, longer than max_ms
Script_loud == [i \in 1..((default_max_ms \div block_ms) + 2) |-> Mic(LoudAmp)]

\* a driver that never delivers a block
Script_starved == [i \in 1..((default_max_ms \div get_timeout_ms) + 2) |-> Starved]

\* three short sessions: 8 loud blocks, 2 loud blocks, 8 loud blocks, each
\* followed by two timeouts of the queue
Script_talk ==
    [i \in 1..32 |-> IF i \in {9, 10, 13, 14, 23, 24} \/ i > 24 THEN Starved ELSE Mic(LoudAmp)]

\* a silent block, eight loud ones and a silent one, the first, the third and
\* the tenth handed over with a driver status, and then nothing
Script_overrun ==
    [i \in 1..10 |-> IF i \in {1, 10} THEN MicStatus(0)
                     ELSE IF i = 3 THEN MicStatus(LoudAmp) ELSE Mic(LoudAmp)]

Scripts == {"s3_l10_s40", "l2_silence", "l2_starved", "loud", "starved", "talk", "overrun"}

Script(f) ==
    CASE f = "s3_l10_s40" -> Script_s3_l10_s40
      [] f = "l2_silence" -> Script_l2_silence
      [] f = "l2_starved" -> Script_l2_starved
      [] f = "loud"       -> Script_loud
      [] f = "starved"    -> Script_starved
      [] f = "talk"       -> Script_talk
      [] f = "overrun"    -> Script_overrun
      [] OTHER            -> << >>

\* What the audio driver can hand to the next loop iteration; it delivers
\* nothing once a script is over.
Deliveries ==
    IF feed = "free"
    THEN {Mic(0), Mic(QuietAmp), Mic(LoudAmp), MicStatus(LoudAmp), Starved}
    ELSE IF fed < Len(Script(feed)) THEN {Script(feed)[fed + 1]} ELSE {Starved}

\* mutant: the callback returns without queueing a block that comes with a
\* status, so that the loop finds the queue empty
callbackSkipsOnStatus(d) ==
    IF d.status THEN [amp |-> 0, dt |-> get_timeout_ms, synthetic |-> TRUE]
    ELSE [amp |-> d.amp, dt |-> d.dt, synthetic |-> d.synthetic]

\* callback of record_once (dictate_min.py:94-97): a status is only logged,
\* q.put(indata.copy()) queues the block, which carries no status.
callback(d) == [amp |-> d.amp, dt |-> d.dt, synthetic |-> d.synthetic]

\* mutant: q.get() without a timeout never returns while nothing is delivered
QueueGetBlocking(d) == IF d.synthetic THEN {} ELSE {d}

\* try: block = q.get(timeout=1.0); except queue.Empty: block = np.zeros(...)
\* (dictate_min.py:110-113): the delivered block, or after the timeout a
\* zero-filled one.
QueueGet(d) == IF d.synthetic THEN {[d EXCEPT !.amp = 0, !.dt = get_timeout_ms]} ELSE {d}

DefaultCfg(max) ==
    [min_speech_ms |-> default_min_speech_ms,
     silence_ms_to_stop |-> default_silence_stop_ms,
     max_ms |-> max]

SmallCfg(max) ==
    [min_speech_ms |-> SmallMinBlocks * block_ms,
     silence_ms_to_stop |-> SmallSilenceBlocks * block_ms,
     max_ms |-> max]

\* The configurations explored: the defaults under the scripts (with a max_ms
\* that is, and one that is not, a multiple of block_ms), small ones under "free".
Configs(f) ==
    IF f = "free"
    THEN {SmallCfg(SmallMaxBlocks * block_ms), SmallCfg(SmallMaxBlocks * block_ms + 20),
          [SmallCfg(SmallMaxBlocks * block_ms) EXCEPT !.min_speech_ms = 0]}
    ELSE IF f = "loud"
    THEN {DefaultCfg(default_max_ms), DefaultCfg(default_max_ms + 20)}
    ELSE {DefaultCfg(default_max_ms)}

\* The output options explored: dictate.py has none; those of dictate_min.py
\* (lines 286-287) matter to the jobs only, so the inputs that lead to no job
\* run under the default.
Options(s, f) ==
    IF s = "min" /\ f \in {"none", "talk"} THEN {"default", "no_trailing", "print_only"}
    ELSE {"default"}

\* How many times the voice loop calls record_once before the run is cut:
\* MaxSessions under a script, once under the free input.
Sessions(f) == IF f = "free" THEN 1 ELSE MaxSessions

\* ------------------------------------------------------------- record_once
\* mutant: the samples are divided by 32767, the largest int16, not by 32768
NormalizeBy32767(v) == (v * Int16Scale) \div (Int16Scale - 1)

\* block.astype(np.float32) / 32768.0 (line 71), in units of 1/32768: every
\* int16 is exact in float32
Normalize(v) == (v * Int16Scale) \div Int16Scale

\* The sum over x of f(x[i] * x[i]).
RECURSIVE SumOver(_, _, _)
SumOver(x, n, mod) ==
    IF x = << >> THEN 0
    ELSE LET sq == Normalize(Head(x)) * Normalize(Head(x))
         IN  (IF mod THEN sq % n ELSE sq \div n) + SumOver(Tail(x), n, mod)

\* np.mean(x * x) (line 72) in units of 1/32768^2, rounded down; the quotients
\* and the remainders by the number of samples are summed apart, which keeps
\* every intermediate value below 2^31.
MeanSquare(x) == SumOver(x, Len(x), FALSE) + (SumOver(x, Len(x), TRUE) \div Len(x))

\* The largest r in lo..hi with r * r <= m, for lo * lo <= m.
RECURSIVE SqrtIn(_, _, _)
SqrtIn(m, lo, hi) ==
    IF lo >= hi THEN lo
    ELSE LET mid == (lo + hi + 1) \div 2
         IN  IF mid * mid <= m THEN SqrtIn(m, mid, hi) ELSE SqrtIn(m, lo, mid - 1)

\* rms_level (lines 67-72) of a sequence of int16 samples, in units of
\* 1/32768 and rounded down: 0.0 for an empty block, else sqrt(mean(x * x)).
rms_level(block) ==
    IF Len(block) = 0 THEN 0 ELSE SqrtIn(MeanSquare(block), 0, 46340)

\* The int16 values of the frames of a block of the capture model.
Values(block) == [i \in 1..FramesPerBlock |-> block.amp]

\* level >= silence_rms (lines 118 and 126)
IsVoice(block) == rms_level(Values(block)) >= silence_rms

\* mutant: the silence stop fires on the first block below the threshold
SilenceStopOnFirstQuiet(n, lv) == lv # NoneTs /\ n > lv

\* mutant: the silence stop fires one block late (> for >=)
SilenceStopStrict(n, lv) == lv # NoneTs /\ (n - lv) > cfg.silence_ms_to_stop

\* (now - last_voice_ts) * 1000.0 >= silence_ms_to_stop (line 129)
SilenceStop(n, lv) == lv # NoneTs /\ (n - lv) >= cfg.silence_ms_to_stop

\* mutant: the max-duration cutoff fires one block late (> for >=)
MaxStopStrict(n) == (n - t0) > cfg.max_ms

\* mutant: the max-duration cutoff is measured from the first processed block
MaxStopFromFirstBlock(n) == (n - t0) >= cfg.max_ms + block_ms

\* (now - t0) * 1000.0 >= max_ms (line 133)
MaxStop(n) == (n - t0) >= cfg.max_ms

\* mutant: only an empty accumulator is discarded
TooShortOnlyEmpty(coll, sp) == coll = << >>

\* not collected or speech_ms < min_speech_ms (line 137)
TooShort(coll, sp) == coll = << >> \/ sp < cfg.min_speech_ms

\* mutant: the blocks heard before the voice are kept too
AccumulateAlways(coll, st, block) == Append(coll, block)

\* if started: collected.append(block) (lines 123-124)
Accumulate(coll, st, block) == IF st THEN Append(coll, block) ELSE coll

\* mutant: only the blocks that reach the threshold count as speech
SpeechAfterVoicedOnly(sp, st, voice) == IF st /\ voice THEN sp + block_ms ELSE sp

\* if started: speech_ms += block_ms (lines 123-125)
SpeechAfter(sp, st, voice) == IF st THEN sp + block_ms ELSE sp

\* mutant: the session start time of the previous call is kept
ArmKeepsStart ==
    /\ started' = FALSE
    /\ last_voice_ts' = NoneTs
    /\ t0' = t0
    /\ collected' = << >>
    /\ speech_ms' = 0
    /\ stop_reason' = "none"
    /\ pc' = "listening"

\* Entry of record_once (lines 86-89, 107-108).
Arm ==
    /\ started' = FALSE
    /\ last_voice_ts' = NoneTs
    /\ t0' = now
    /\ collected' = << >>
    /\ speech_ms' = 0
    /\ stop_reason' = "none"
    /\ pc' = "listening"

\* One iteration of the while loop of record_once (lines 109-135).
RecordBlock(d) ==
    LET block == [seq |-> fed + 1, amp |-> d.amp, synthetic |-> d.synthetic]
        n     == now + d.dt
        voice == IsVoice(block)
        st    == started \/ voice
        lv    == IF voice THEN n ELSE last_voice_ts
        brk   == IF st /\ SilenceStop(n, lv) THEN "silence"
                 ELSE IF MaxStop(n) THEN "max" ELSE "none"
    IN  /\ trigger = "voice"
        /\ proc = "running"
        /\ pc = "listening"
        /\ fed' = fed + 1
        /\ now' = n
        /\ started' = st
        /\ last_voice_ts' = lv
        /\ collected' = Accumulate(collected, st, block)
        /\ speech_ms' = SpeechAfter(speech_ms, st, voice)
        /\ stop_reason' = brk
        /\ pc' = IF brk = "none" THEN "listening" ELSE "stopped"
        /\ UNCHANGED <<envVars, rmsVars, procVars, session, t0, outVars, pttVars, lVars>>

RecordStep == \E o \in Deliveries : \E d \in QueueGet(callback(o)) : RecordBlock(d)

\* A fresh transcription job for artifact w: a daemon thread
\* (threading.Thread(...).start()), or in dictate.py the transcriber call made
\* inline by the key handler (sync).
NewJob(w, sync) ==
    [wav |-> w, pc |-> "call", outcome |-> "none", injected |-> << >>, typed |-> "none",
     sync |-> sync]

\* mutant: a job is started whatever record_once or stop() returned
DispatchAlways(js, w, sync) == Append(js, NewJob(w, sync))

\* if wav is None: continue / return; otherwise one job for the artifact
\* (dictate_min.py:354-365, 441-452; dictate.py:335-339, 357-361).
Dispatch(js, w, sync) == IF w = 0 THEN js ELSE Append(js, NewJob(w, sync))

\* The samples of a block (indata.copy(), or np.zeros((frames_per_block, 1))):
\* frame i of block seq has the block's amplitude.
Samples(block) ==
    [i \in 1..FramesPerBlock |-> [block |-> block.seq, frame |-> i, value |-> block.amp]]

\* mutant: each block is put in front of the ones accumulated before it
RECURSIVE ConcatenateNewestFirst(_)
ConcatenateNewestFirst(bs) ==
    IF Len(bs) = 0 THEN << >>
    ELSE IF Len(bs) = 1 THEN Samples(bs[1])
    ELSE LET h == Len(bs) \div 2
         IN  ConcatenateNewestFirst(SubSeq(bs, h + 1, Len(bs))) \o
             ConcatenateNewestFirst(SubSeq(bs, 1, h))

\* audio = np.concatenate(collected, axis=0) (dictate_min.py:141, 180;
\* dictate.py:170): the samples of the first half of the blocks followed by
\* those of the second half.
RECURSIVE Concatenate(_)
Concatenate(bs) ==
    IF Len(bs) = 0 THEN << >>
    ELSE IF Len(bs) = 1 THEN Samples(bs[1])
    ELSE LET h == Len(bs) \div 2
         IN  Concatenate(SubSeq(bs, 1, h)) \o Concatenate(SubSeq(bs, h + 1, Len(bs)))

\* The artifact written from the accumulated blocks.
Artifact(blocks) == [blocks |-> blocks, samples |-> Concatenate(blocks), exists |-> TRUE]

\* mutant: the artifact is written over one that a job has already deleted
WriteWavOverDeleted(ws, blocks) ==
    IF \E w \in DOMAIN ws : ~ws[w].exists
    THEN [ws EXCEPT ![CHOOSE w \in DOMAIN ws : ~ws[w].exists] = Artifact(blocks)]
    ELSE Append(ws, Artifact(blocks))

\* tempfile.NamedTemporaryFile(delete=False); sf.write(tmp.name, audio, ...)
\* (lines 141-144, 181-184)
WriteWav(ws, blocks) == Append(ws, Artifact(blocks))

\* The return of record_once (lines 137-144) and the voice loop's use of it
\* (lines 354-365).
Returns ==
    LET none == TooShort(collected, speech_ms)
        w    == IF none THEN 0 ELSE Len(wavs) + 1
    IN  /\ wavs' = IF none THEN wavs ELSE WriteWav(wavs, collected)
        /\ results' = Append(results, w)
        /\ jobs' = Dispatch(jobs, w, FALSE)

\* record_once returns (its with block closes the stream), the loop starts
\* the job and calls record_once again, which opens a new stream.
RecordReturn ==
    /\ trigger = "voice"
    /\ proc = "running"
    /\ pc = "stopped"
    /\ Returns
    /\ IF session < Sessions(feed)
       THEN /\ session' = session + 1
            /\ Arm
            /\ stream' = "open"
       ELSE /\ pc' = "idle"
            /\ stream' = "closed"
            /\ UNCHANGED <<session, started, last_voice_ts, t0, collected,
                           speech_ms, stop_reason>>
    /\ UNCHANGED <<envVars, rmsVars, proc, main_pc, fed, now, pttVars, lVars>>

\* np.concatenate, tempfile.NamedTemporaryFile or sf.write raises (lines
\* 141-143): the with block closes the stream and the exception leaves
\* record_once and the while loop of main, whose only handler is
\* except KeyboardInterrupt (lines 345-371).
EncodeFails ==
    /\ trigger = "voice"
    /\ proc = "running"
    /\ pc = "stopped"
    /\ ~TooShort(collected, speech_ms)
    /\ stream' = "closed"
    /\ proc' = "crashed"
    /\ UNCHANGED <<envVars, rmsVars, recVars, outVars, pttVars, lVars, main_pc>>

\* record_once returns, the loop starts the job and calls record_once again,
\* where sd.InputStream(...) raises (lines 99-105): the exception leaves the
\* while loop of main the same way.
ReopenFails ==
    /\ trigger = "voice"
    /\ proc = "running"
    /\ pc = "stopped"
    /\ session < Sessions(feed)
    /\ Returns
    /\ pc' = "idle"
    /\ stream' = "closed"
    /\ proc' = "crashed"
    /\ UNCHANGED <<envVars, rmsVars, session, fed, started, last_voice_ts, t0, now, collected,
                   speech_ms, stop_reason, pttVars, lVars, main_pc>>

\* -------------------------------------------------- PushToTalkRecorder
\* mutant: a queue of one block, the callback drops the oldest block to make room
PutDropOldest(qq, b) == IF qq = << >> THEN Append(qq, b) ELSE Append(Tail(qq), b)

\* self._q.put(indata.copy()) (dictate_min.py:159, dictate.py:155)
Put(qq, b) == Append(qq, b)

\* mutant: stop() discards a recording shorter than min_speech_ms
NothingCapturedOrTooShort(qq) == qq = << >> \/ Len(qq) * block_ms < cfg.min_speech_ms

\* mutant: stop() goes on to write an artifact whatever the queue holds
NothingCapturedNever(qq) == FALSE

\* if self._q.empty(): return None (dictate_min.py:176-177, dictate.py:165-166)
NothingCaptured(qq) == qq = << >>

\* while not self._q.empty() (dictate_min.py:179, dictate.py:168)
QEmpty(qq) == qq = << >>

\* No callback invocation in progress.
NoBlock == [seq |-> 0, amp |-> 0, synthetic |-> FALSE, epoch |-> 0]

\* The block the driver hands to the callback: the seq-th one, delivered
\* after ep calls of start() (its samples were captured before the callback
\* ran).  In hotkey mode the microphone hears silent and loud blocks in turn.
Indata(sq, ep) ==
    [seq |-> sq, amp |-> IF sq % 2 = 1 THEN 0 ELSE LoudAmp, synthetic |-> FALSE, epoch |-> ep]

\* Whether the driver hands the sq-th block over with a status: in hotkey
\* mode every third block, from the first.
DriverStatus(sq) == sq % 3 = 1

\* if status: warn(...); if self._flag: (dictate_min.py:156-158,
\* dictate.py:152-154): whether the callback goes on to queue the block.
Keeps(status, fl) == fl

\* The audio callback reads self._flag (dictate_min.py:158, dictate.py:154);
\* a block delivered while the flag is clear is dropped.
CallbackRead ==
    /\ trigger = "key"
    /\ proc = "running"
    /\ cb_pc = "idle"
    /\ captured < MaxCaptured
    /\ captured' = captured + 1
    /\ cb_pc' = IF Keeps(DriverStatus(captured + 1), flag) THEN "put" ELSE "idle"
    /\ cb_block' = IF Keeps(DriverStatus(captured + 1), flag)
                   THEN Indata(captured + 1, starts) ELSE NoBlock
    /\ UNCHANGED <<envVars, rmsVars, procVars, recVars, outVars, flag, q, rec_active, starts, lVars>>

\* ... and queues the block it was handed.
CallbackPut ==
    /\ trigger = "key"
    /\ proc = "running"
    /\ cb_pc = "put"
    /\ q' = Put(q, cb_block)
    /\ cb_pc' = "idle"
    /\ cb_block' = NoBlock
    /\ UNCHANGED <<envVars, rmsVars, procVars, recVars, outVars, flag, rec_active, starts, captured, lVars>>

\* start(): self._flag = True (dictate_min.py:170, dictate.py:159)
StartSetFlag ==
    /\ flag' = TRUE
    /\ starts' = starts + 1
    /\ l_pc' = "start"
    /\ UNCHANGED <<q, rec_active, captured, cb_pc, cb_block, chunks>>

\* start(): with self._q.mutex: self._q.queue.clear(), and the caller's
\* rec_active["v"] = True (dictate_min.py:171-172, 407; dictate.py:160-161)
StartClear ==
    /\ trigger = "key"
    /\ proc = "running"
    /\ l_pc = "start"
    /\ q' = << >>
    /\ rec_active' = IF script = "min" THEN TRUE ELSE rec_active
    /\ l_pc' = "idle"
    /\ UNCHANGED <<envVars, rmsVars, procVars, recVars, outVars, flag, starts, captured, cb_pc, cb_block, chunks, last_key>>

\* stop(): self._flag = False (dictate_min.py:175, dictate.py:164)
StopClearFlag ==
    /\ flag' = FALSE
    /\ l_pc' = "stop"
    /\ UNCHANGED <<q, rec_active, starts, captured, cb_pc, cb_block, chunks>>

\* What the key handler does with the result w of stop(): dictate_min.py
\* clears rec_active and starts a thread (lines 440-452); dictate.py calls the
\* transcriber itself (lines 334-339, 356-361).
AfterStop(w) ==
    /\ results' = Append(results, w)
    /\ jobs' = Dispatch(jobs, w, script = "full")
    /\ rec_active' = IF script = "min" THEN FALSE ELSE rec_active
    /\ l_pc' = IF script = "full" /\ w # 0 THEN "job" ELSE "idle"

\* stop(): if self._q.empty(): return None; chunks = [] (lines 176-178)
StopCheck ==
    /\ trigger = "key"
    /\ proc = "running"
    /\ l_pc = "stop"
    /\ IF NothingCaptured(q)
       THEN /\ AfterStop(0)
            /\ UNCHANGED <<wavs, chunks>>
       ELSE /\ l_pc' = "drain"
            /\ chunks' = << >>
            /\ UNCHANGED <<outVars, rec_active>>
    /\ UNCHANGED <<envVars, rmsVars, procVars, recVars, flag, q, starts, captured, cb_pc, cb_block, last_key>>

\* stop(): while not self._q.empty(): chunks.append(self._q.get()); then
\* concatenate, write the artifact and return its path (lines 179-184)
StopDrain ==
    /\ trigger = "key"
    /\ proc = "running"
    /\ l_pc = "drain"
    /\ IF ~QEmpty(q)
       THEN /\ chunks' = Append(chunks, Head(q))
            /\ q' = Tail(q)
            /\ UNCHANGED <<outVars, rec_active, l_pc>>
       ELSE /\ wavs' = WriteWav(wavs, chunks)
            /\ AfterStop(Len(wavs) + 1)
            /\ UNCHANGED <<q, chunks>>
    /\ UNCHANGED <<envVars, rmsVars, procVars, recVars, flag, starts, captured, cb_pc, cb_block, last_key>>

\* ----------------------------------------------------------- key handlers
\* mutant: the handlers take the recorder for idle whatever its state
RecordingNever == FALSE

\* The handler's test of "not recording": rec_active["v"] in dictate_min.py
\* (lines 405, 438, 478), rec._flag in dictate.py (lines 330, 348, 355).
Recording == IF script = "min" THEN rec_active ELSE flag

\* on_press of the hotkey (dictate_min.py:469-485, dictate.py:322-350): starts
\* the recorder when not recording; in toggle mode stops it when recording.
\* A press while recording in hold mode (auto-repeat) does nothing.
HotkeyPress ==
    /\ trigger = "key"
    /\ proc = "running"
    /\ main_pc = "join"
    /\ l_pc = "idle"
    /\ IF ~Recording
       THEN /\ starts < MaxStarts
            /\ StartSetFlag
            /\ last_key' = "press"
       ELSE IF mode = "toggle"
       THEN /\ StopClearFlag
            /\ last_key' = "press"
       ELSE /\ last_key' = "repeat"
            /\ UNCHANGED <<pttVars, l_pc, chunks>>
    /\ UNCHANGED <<envVars, rmsVars, procVars, recVars, outVars>>

\* on_release of the hotkey in hold mode (dictate_min.py:487-492,
\* dictate.py:354-367): stops the recorder when recording, and does nothing
\* otherwise.  In toggle mode no handler acts on a release.
HotkeyRelease ==
    /\ trigger = "key"
    /\ proc = "running"
    /\ main_pc = "join"
    /\ l_pc = "idle"
    /\ mode = "hold"
    /\ last_key' = "release"
    /\ IF Recording
       THEN StopClearFlag
       ELSE UNCHANGED <<pttVars, l_pc, chunks>>
    /\ UNCHANGED <<envVars, rmsVars, procVars, recVars, outVars>>

\* --------------------------------------------------------------- shutdown
\* Hotkey mode: main has built the recorder (dictate_min.py:401, dictate.py:303)
\* and the listener and enters the try around listener.join()
\* (dictate_min.py:497-508, dictate.py:372-374).
MainJoin ==
    /\ trigger = "key"
    /\ proc = "running"
    /\ main_pc = "setup"
    /\ main_pc' = "join"
    /\ UNCHANGED <<envVars, rmsVars, recVars, outVars, pttVars, lVars, proc, stream>>

\* An exception or SystemExit raised in the main thread.  In voice mode main
\* is inside record_once's with block, which closes the stream, or between
\* two calls; in hotkey mode the finally clause with rec.close() is run only
\* if main is inside the try (dictate_min.py:506-517, dictate.py:373-378).
MainRaise(how) ==
    /\ proc = "running"
    /\ proc' = how
    /\ stream' = IF trigger = "voice" \/ main_pc = "join" THEN "closed" ELSE stream
    /\ UNCHANGED <<envVars, rmsVars, recVars, outVars, pttVars, lVars, main_pc>>

\* Ctrl+C: KeyboardInterrupt in the main thread, then sys.exit(0) or the end
\* of main (dictate_min.py:368-371, 509-520; dictate.py:375-378).
Interrupt == MainRaise("interrupt")

\* dictate.py --daemon: signal_handler calls sys.exit(0) in the main thread
\* (dictate.py:244-249).
Sigterm ==
    /\ trigger = "key"
    /\ script = "full"
    /\ MainRaise("sigterm")

\* dictate_min.py: on_press of ESC returns False, which stops the listener
\* (dictate_min.py:471-474).
EscPress ==
    /\ trigger = "key"
    /\ script = "min"
    /\ proc = "running"
    /\ main_pc = "join"
    /\ l_pc = "idle"
    /\ l_pc' = "ended"
    /\ UNCHANGED <<envVars, rmsVars, recVars, outVars, pttVars, chunks, last_key, procVars>>

\* listener.join() returns: finally listener.stop(), rec.close(); sys.exit(0)
\* (dictate_min.py:512-520).
JoinReturns ==
    /\ trigger = "key"
    /\ proc = "running"
    /\ main_pc = "join"
    /\ l_pc = "ended"
    /\ stream' = "closed"
    /\ proc' = "esc"
    /\ UNCHANGED <<envVars, rmsVars, recVars, outVars, pttVars, lVars, main_pc>>

\* -------------------------------------------------------- transcription job
\* transcribe_groq / transcribe_openai returns a text, an empty text, or raises.
Outcomes == {"text", "empty", "raise"}

\* What the text injection can do: type_text returns True or False
\* (dictate_min.py:223-273); _type_text of dictate.py returns or raises
\* (dictate.py:55-131).
InjectResults == IF script = "full" /\ trigger = "key" THEN {"ok", "failed", "raised"}
                 ELSE {"ok", "failed"}

\* mutant: no except clause, a raise of the backend leaves the job
CaughtNever(o) == o # "raise"

\* except Exception as e (dictate_min.py:337, 429; dictate.py:342, 364):
\* every failure of the backend or of the injection is caught in the job.
Caught(o) == TRUE

\* resp.text.strip() (dictate_min.py:205, 218; dictate.py:196, 214): what a
\* call that returned has returned.
Transcript(o) == IF o = "text" THEN "hi" ELSE ""

\* if not no_trailing: text += " " (dictate_min.py:326-327, 419-420);
\* text + " " (dictate.py:341, 363)
WithSeparator(t) == IF opts = "no_trailing" THEN t ELSE t \o " "

\* Whether the job injects: never after a raise; the voice job only a
\* non-empty text (if text:, dictate_min.py:325); the jobs of dictate_min.py
\* print instead under --print-only (lines 331-334, 424-428); the job of
\* dictate.py always (dictate.py:341).
Injects(o) ==
    /\ o = "text" \/ (o = "empty" /\ trigger = "key")
    /\ opts # "print_only"

\* The thread runs the jobs that are not inline; the listener thread runs the
\* inline one while it is in "job".  No thread runs once the process has ended.
Runs(j) == proc = "running" /\ (jobs[j].sync => l_pc = "job")

\* The backend call of job j returns or raises (dictate_min.py:320-323,
\* 413-416; dictate.py:339, 361).
JobCall(j, o) ==
    /\ jobs[j].pc = "call"
    /\ Runs(j)
    /\ jobs' = [jobs EXCEPT ![j].pc = "returned", ![j].outcome = o]
    /\ UNCHANGED <<envVars, rmsVars, procVars, recVars, results, wavs, pttVars, lVars>>

\* After the call: inject the text, or the except clause.
JobInject(j, r) ==
    /\ jobs[j].pc = "returned"
    /\ Runs(j)
    /\ jobs' = [jobs EXCEPT ![j].pc = "finally",
                            ![j].injected = IF Injects(jobs[j].outcome)
                                            THEN <<WithSeparator(Transcript(jobs[j].outcome))>>
                                            ELSE << >>,
                            ![j].typed = IF Injects(jobs[j].outcome) THEN r ELSE "none"]
    /\ UNCHANGED <<envVars, rmsVars, procVars, recVars, results, wavs, pttVars, lVars>>

\* wav_path.unlink(missing_ok=True)
Unlink(ws, w) == [ws EXCEPT ![w].exists = FALSE]

\* Whether job's try block ended in an exception.
Raised(job) == job.outcome = "raise" \/ job.typed = "raised"

\* mutant: the unlink at the end of the try block instead of in a finally clause
CleanupOnSuccess(ws, job) == IF Raised(job) THEN ws ELSE Unlink(ws, job.wav)

\* finally: the artifact is deleted whatever happened in the try block
\* (dictate_min.py:339-343, 431-435; dictate.py:344-345, 366-367).
Cleanup(ws, job) == Unlink(ws, job.wav)

\* The finally clause of job j; an inline job then returns to the listener,
\* which dies if an exception leaves the handler.
JobFinally(j) ==
    /\ jobs[j].pc = "finally"
    /\ Runs(j)
    /\ wavs' = Cleanup(wavs, jobs[j])
    /\ jobs' = [jobs EXCEPT ![j].pc = "done"]
    /\ l_pc' = IF jobs[j].sync
               THEN (IF Raised(jobs[j]) /\ ~Caught(jobs[j].outcome) THEN "dead" ELSE "idle")
               ELSE l_pc
    /\ UNCHANGED <<envVars, rmsVars, procVars, recVars, results, pttVars, chunks, last_key>>

JobStep ==
    \E j \in DOMAIN jobs :
        \/ \E o \in Outcomes : JobCall(j, o)
        \/ \E r \in InjectResults : JobInject(j, r)
        \/ JobFinally(j)

\* ------------------------------------------------------- rms_level alone
\* The sample values tried: the ends of the int16 range, the values around
\* zero and those around the default threshold.
Int16Samples == {-Int16Scale, -silence_rms, -1, 0, 1, silence_rms - 1, silence_rms,
                 Int16Scale - 1}

\* The blocks tried: every sequence of at most FramesPerBlock such values.
RECURSIVE BlocksOfLen(_)
BlocksOfLen(n) ==
    IF n = 0 THEN {<< >>}
    ELSE {Append(b, v) : b \in BlocksOfLen(n - 1), v \in Int16Samples}

RmsBlocks == UNION {BlocksOfLen(n) : n \in 0..FramesPerBlock}

\* level = rms_level(block)
RmsCall ==
    /\ trigger = "rms"
    /\ rms_out = NoLevel
    /\ rms_out' = rms_level(rms_in)
    /\ UNCHANGED <<envVars, recVars, outVars, pttVars, lVars, procVars, rms_in>>

\* ------------------------------------------------------------ specification
InitRecorder ==
    /\ flag = FALSE
    /\ q = << >>
    /\ rec_active = FALSE
    /\ starts = 0
    /\ captured = 0
    /\ cb_pc = "idle"
    /\ cb_block = NoBlock
    /\ l_pc = "idle"
    /\ chunks = << >>
    /\ last_key = "none"
    /\ proc = "running"
    /\ stream = "open"
    /\ rms_in = << >>
    /\ rms_out = NoLevel

InitSession ==
    /\ session = 1
    /\ fed = 0
    /\ started = FALSE
    /\ last_voice_ts = NoneTs
    /\ t0 = 0
    /\ now = 0
    /\ collected = << >>
    /\ speech_ms = 0
    /\ stop_reason = "none"

InitOut ==
    /\ results = << >>
    /\ wavs = << >>
    /\ jobs = << >>

\* dictate_min.py --trigger voice under one of the inputs F
InitVoice(F) ==
    /\ trigger = "voice"
    /\ feed \in F
    /\ cfg \in Configs(feed)
    /\ opts \in Options("min", feed)
    /\ script = "min"
    /\ mode = "hold"
    /\ pc = "listening"
    /\ main_pc = "join"
    /\ InitSession
    /\ InitOut
    /\ InitRecorder

\* dictate_min.py --trigger key, or dictate.py, in hold or toggle mode, with
\* main at m
InitKeyAt(m) ==
    /\ trigger = "key"
    /\ main_pc = m
    /\ feed = "none"
    /\ cfg = DefaultCfg(default_max_ms)
    /\ script \in {"min", "full"}
    /\ mode \in {"hold", "toggle"}
    /\ opts \in Options(script, "none")
    /\ pc = "idle"
    /\ InitSession
    /\ InitOut
    /\ InitRecorder

\* hotkey mode once main waits in listener.join()
InitKey == InitKeyAt("join")

Init == InitVoice({"talk", "starved"}) \/ InitKey

Next ==
    \/ RecordStep
    \/ RecordReturn
    \/ JobStep
    \/ CallbackRead
    \/ CallbackPut
    \/ HotkeyPress
    \/ HotkeyRelease
    \/ StartClear
    \/ StopCheck
    \/ StopDrain

Spec == Init /\ [][Next]_vars

\* The same with the failures of the capture loop's own calls and the ways
\* the process is ended, hotkey mode starting when the recorder has been built.
InitExit == InitVoice({"talk"}) \/ InitKeyAt("setup")

NextExit ==
    \/ Next
    \/ EncodeFails
    \/ ReopenFails
    \/ MainJoin
    \/ Interrupt
    \/ Sigterm
    \/ EscPress
    \/ JoinReturns

SpecExit == InitExit /\ [][NextExit]_vars

\* rms_level called once with each of the blocks
InitRms ==
    /\ trigger = "rms"
    /\ feed = "none"
    /\ cfg = DefaultCfg(default_max_ms)
    /\ opts = "default"
    /\ script = "min"
    /\ mode = "hold"
    /\ pc = "idle"
    /\ main_pc = "join"
    /\ InitSession
    /\ InitOut
    /\ flag = FALSE
    /\ q = << >>
    /\ rec_active = FALSE
    /\ starts = 0
    /\ captured = 0
    /\ cb_pc = "idle"
    /\ cb_block = NoBlock
    /\ l_pc = "idle"
    /\ chunks = << >>
    /\ last_key = "none"
    /\ proc = "running"
    /\ stream = "closed"
    /\ rms_in \in RmsBlocks
    /\ rms_out = NoLevel

SpecRms == InitRms /\ [][RmsCall]_vars

\* record_once and the loop that calls it under every input, without the
\* steps of the jobs
InitRecord == InitVoice(Scripts \cup {"free"})

NextRecord ==
    \/ RecordStep
    \/ RecordReturn

SpecRecord == InitRecord /\ [][NextRecord]_vars

\* The capture side of both triggers: record_once under every input and the
\* recorder driven by the hotkey, without the steps of the jobs
InitCapture == InitRecord \/ InitKey

NextCapture ==
    \/ NextRecord
    \/ CallbackRead
    \/ CallbackPut
    \/ HotkeyPress
    \/ HotkeyRelease
    \/ StartClear
    \/ StopCheck
    \/ StopDrain

SpecCapture == InitCapture /\ [][NextCapture]_vars

\* The voice loop is the main thread and q.get returns within its timeout:
\* an iteration of the loop, and the return of record_once, happen when they can.
InitLive == InitVoice({"starved", "l2_starved", "free"})

SpecLive == InitLive /\ [][NextRecord]_vars /\ WF_vars(RecordStep) /\ WF_vars(RecordReturn)

\* ================================================================== claims
\* The blocks of bs whose level reaches the threshold, as a duration.
VoicedMs(bs) == Cardinality({i \in DOMAIN bs : bs[i].amp >= silence_rms}) * block_ms

DurationMs(bs) == Len(bs) * block_ms

Seqs(bs) == {bs[i].seq : i \in DOMAIN bs}

\* C1 (as claimed): a session whose captured speech (its blocks at or above
\* the threshold) is shorter than min_speech_ms emits no Utterance, so every
\* artifact record_once writes holds at least min_speech_ms of voiced blocks.
C1_ShortSpeechNotEmitted ==
    \A w \in DOMAIN wavs : VoicedMs(wavs[w].blocks) >= cfg.min_speech_ms

\* C2: once RECORDING, a session that is still listening after a block has
\* now - last_voice_ts < silence_ms_to_stop at that block, a session ended by
\* the silence stop has now - last_voice_ts >= silence_ms_to_stop, and a session
\* ended by the max-duration cutoff did not meet the silence condition; under
\* the input 3 silent, 10 loud, 40 silent the only Utterance is emitted at
\* block 43, holds the ten loud blocks 4..13 and lasts at least min_speech_ms.
C2_SilenceStop ==
    /\ (pc = "listening" /\ started) =>
            (now - last_voice_ts) < cfg.silence_ms_to_stop
    /\ (pc = "stopped" /\ stop_reason = "silence") =>
            (started /\ (now - last_voice_ts) >= cfg.silence_ms_to_stop)
    /\ (pc = "stopped" /\ stop_reason = "max") =>
            (started => (now - last_voice_ts) < cfg.silence_ms_to_stop)
    /\ feed = "s3_l10_s40" =>
        /\ Len(wavs) = IF fed > 43 \/ (fed = 43 /\ pc # "stopped") THEN 1 ELSE 0
        /\ \A w \in DOMAIN wavs :
            /\ 4..13 \subseteq Seqs(wavs[w].blocks)
            /\ VoicedMs(wavs[w].blocks) = 10 * block_ms
            /\ DurationMs(wavs[w].blocks) >= cfg.min_speech_ms

C2_Witness ==
    /\ feed = "s3_l10_s40"
    /\ fed = 53
    /\ Len(wavs) = 1
    /\ results = <<1>>

\* C3: a session never keeps listening past a block with now - t0 >= max_ms,
\* and a session ended by the cutoff has now - t0 >= max_ms; under continuous
\* loud blocks the first session is ended by the cutoff (never by silence), at
\* block 400 when max_ms = 20000, and its Utterance of all blocks so far is emitted.
C3_MaxDurationStop ==
    /\ pc = "listening" => (now - t0) < cfg.max_ms
    /\ (pc = "stopped" /\ stop_reason = "max") => (now - t0) >= cfg.max_ms
    /\ feed = "loud" =>
        /\ (pc = "stopped" /\ session = 1) =>
              /\ stop_reason = "max"
              /\ cfg.max_ms = default_max_ms => fed = 400
        /\ (session = 1 /\ pc = "listening") => wavs = << >>
        /\ session > 1 =>
              /\ Len(wavs) >= 1
              /\ results[1] = 1
              /\ Seqs(wavs[1].blocks) = 1..Len(wavs[1].blocks)
              /\ cfg.max_ms = default_max_ms => Len(wavs[1].blocks) = 400

C3_Witness ==
    /\ feed = "loud"
    /\ cfg.max_ms = default_max_ms
    /\ session = 2
    /\ Len(wavs[1].blocks) = 400

\* C4 (as claimed): every emitted Utterance lasts at most max_ms.
C4_DurationWithinMax ==
    \A w \in DOMAIN wavs : DurationMs(wavs[w].blocks) <= cfg.max_ms

\* C4 (amended): every emitted Utterance lasts less than max_ms + block_ms,
\* and at most max_ms when max_ms is a multiple of block_ms.
C4_DurationWithinMaxRoundedUp ==
    \A w \in DOMAIN wavs :
        /\ DurationMs(wavs[w].blocks) < cfg.max_ms + block_ms
        /\ cfg.max_ms % block_ms = 0 => DurationMs(wavs[w].blocks) <= cfg.max_ms

C4_Witness ==
    \E w \in DOMAIN wavs :
        /\ cfg.max_ms % block_ms = 0
        /\ DurationMs(wavs[w].blocks) = cfg.max_ms

\* C5: no artifact is ever written from zero blocks, a record_once that
\* collected nothing returns None, and a stop() that finds the queue empty
\* returns None and writes nothing, whatever the audio callback does meanwhile.
C5_NoEmptyArtifact ==
    /\ [](\A w \in DOMAIN wavs : Len(wavs[w].blocks) > 0)
    /\ [][(pc = "stopped" /\ collected = << >> /\ pc' # pc) =>
            (wavs' = wavs /\ results' = Append(results, 0))]_vars
    /\ [][(l_pc = "stop" /\ q = << >> /\ l_pc' # l_pc) =>
            (wavs' = wavs /\ results' = Append(results, 0) /\ jobs' = jobs)]_vars

\* a stop() on an empty queue has returned None, and one on a non-empty queue an artifact
C5_Witness ==
    /\ trigger = "key"
    /\ Len(results) = 2
    /\ results[1] = 0
    /\ results[2] # 0

\* C6 (as claimed): while a transcription has not completed, the thread that
\* starts and stops the recorder is never the one held inside that job, so the
\* next Utterance can be captured (in voice mode the capture loop runs no job).
C6_CaptureNeverBlockedByJob ==
    \A j \in DOMAIN jobs : jobs[j].pc # "done" => l_pc # "job"

\* C7: each artifact returned by record_once or stop() has exactly one job,
\* every job has such an artifact, and there are as many jobs as non-None results.
C7_OneJobPerUtterance ==
    /\ \A w \in DOMAIN wavs : Cardinality({j \in DOMAIN jobs : jobs[j].wav = w}) = 1
    /\ \A j \in DOMAIN jobs : jobs[j].wav \in DOMAIN wavs
    /\ \A i \in DOMAIN results : results[i] # 0 => results[i] \in DOMAIN wavs
    /\ Len(jobs) = Cardinality({i \in DOMAIN results : results[i] # 0})

\* the voice loop after an Utterance, a discarded session and another Utterance
C7_Witness ==
    /\ trigger = "voice"
    /\ results = <<1, 0, 2>>
    /\ Len(jobs) = 2

\* C8: the artifact of a job exists until the job's backend call has returned
\* or raised (and until its finally clause), and is gone once the job is done,
\* whatever the outcome of the call and of the injection.
C8_ArtifactDeletedByJob ==
    \A j \in DOMAIN jobs :
        /\ jobs[j].pc \in {"call", "returned", "finally"} => wavs[jobs[j].wav].exists
        /\ jobs[j].pc = "done" => ~wavs[jobs[j].wav].exists

\* one job whose backend raised and one whose injection failed, both done
C8_Witness ==
    \E i, j \in DOMAIN jobs :
        /\ jobs[i].pc = "done" /\ jobs[i].outcome = "raise"
        /\ jobs[j].pc = "done" /\ jobs[j].outcome = "text" /\ jobs[j].typed = "failed"
        /\ ~wavs[jobs[i].wav].exists
        /\ ~wavs[jobs[j].wav].exists

\* A step of a job: jobs changes and nothing was returned by record_once or stop().
JobStepped == jobs' # jobs /\ results' = results

\* C9: the key listener never dies of a job's failure, a step of a job changes
\* nothing of the capture loop or of the recorder, and the handler that ran a
\* job inline is back to idle when that job is done, also when it failed.
C9_FailureContained ==
    /\ [](l_pc # "dead")
    /\ [][JobStepped => UNCHANGED <<recVars, pttVars, chunks>>]_vars
    /\ [][\A j \in DOMAIN jobs :
            (jobs[j].pc # "done" /\ jobs'[j].pc = "done" /\ jobs[j].sync) => l_pc' = "idle"]_vars

\* dictate.py: a job failed and a later recording was emitted
C9_Witness ==
    /\ script = "full"
    /\ \E j \in DOMAIN jobs :
        /\ jobs[j].outcome = "raise"
        /\ jobs[j].pc = "done"
        /\ Len(wavs) > jobs[j].wav

\* A step of the audio callback thread / of the key listener thread.
CallbackStepped == cb_pc' # cb_pc \/ captured' # captured

ListenerStepped ==
    l_pc' # l_pc \/ chunks' # chunks \/ results' # results \/ rec_active' # rec_active

\* C10 (as claimed): the recording flag and the accumulator change only in
\* steps of the capture (audio callback) thread, never in a step of the hotkey path.
C10_OnlyCaptureThreadWrites ==
    [][(flag' # flag \/ q' # q) => CallbackStepped]_vars

\* C10 (amended): the flag is written only by the key listener thread (start()
\* sets it, stop() clears it) and never by the audio callback; the callback
\* only appends a block to the queue; blocks leave the queue only in steps of
\* the listener thread (the clear of start(), the drain of stop()).
C10_WritersOfFlagAndQueue ==
    [][/\ flag' # flag => (ListenerStepped /\ ~CallbackStepped)
       /\ CallbackStepped =>
            /\ flag' = flag
            /\ q' = q \/ (Len(q') = Len(q) + 1 /\ SubSeq(q', 1, Len(q)) = q)
       /\ (q' # q /\ ~CallbackStepped) => ListenerStepped]_vars

\* the listener has set the flag and the callback has queued a block
C10_Witness ==
    /\ flag
    /\ q # << >>
    /\ l_pc = "idle"
    /\ cb_pc = "idle"

\* C11 (as claimed): the Utterance returned by the k-th stop() holds only
\* blocks the driver delivered after the k-th start() was called (the calls of
\* start() and stop() alternate), never a block delivered before it.
C11_OnlyBlocksSinceLastStart ==
    \A k \in DOMAIN results :
        (trigger = "key" /\ results[k] # 0) =>
            \A i \in DOMAIN wavs[results[k]].blocks :
                wavs[results[k]].blocks[i].epoch = k

\* The blocks of the artifacts written so far, whether deleted or not.
Written == [w \in DOMAIN wavs |-> wavs[w].blocks]

\* The session the voice loop is in after n blocks of the input "talk": the
\* sessions end at blocks 10, 14 and 24, the later ones (nothing delivered)
\* after max_ms of timeouts each.
TalkSession(n, p) ==
    LET m == IF p = "listening" THEN n ELSE n - 1
    IN  IF m < 10 THEN 1
        ELSE IF m < 14 THEN 2
        ELSE IF m < 24 THEN 3
        ELSE 4 + ((m - 24) \div (default_max_ms \div get_timeout_ms))

\* What the k-th session of the input "talk" returns.
TalkResult(k) == IF k = 1 THEN 1 ELSE IF k = 3 THEN 2 ELSE 0

\* C12: in voice mode a step of a job changes nothing of the capture loop
\* (pc, started, collected, last_voice_ts, t0, speech_ms, ...), of what
\* record_once returned or of the blocks written; and under the input "talk"
\* the loop's state and the Utterances emitted are, at every block, the same
\* whatever the jobs have done so far: the sessions return artifact 1 (blocks
\* 1..10), None, artifact 2 (blocks 15..24), in this order, and None afterwards.
C12_CaptureIndependentOfJobs ==
    /\ [][(trigger = "voice" /\ JobStepped) =>
            UNCHANGED <<recVars, results, Written>>]_vars
    /\ [](feed = "talk" =>
            /\ session = TalkSession(fed, pc)
            /\ results = [k \in 1..(IF pc = "idle" THEN session ELSE session - 1) |->
                            TalkResult(k)]
            /\ started = (collected # << >>)
            /\ speech_ms = Len(collected) * block_ms
            /\ started => Seqs(collected) = (fed - Len(collected) + 1)..fed
            /\ Len(Written) = Cardinality({i \in DOMAIN results : results[i] # 0})
            /\ Len(Written) >= 1 => Seqs(Written[1]) = 1..10
            /\ Len(Written) >= 2 => Seqs(Written[2]) = 15..24)

\* two jobs were in flight at once and the later one completed first
C12_Witness ==
    /\ trigger = "voice"
    /\ pc = "idle"
    /\ Len(jobs) = 2
    /\ jobs[1].pc = "returned"
    /\ jobs[2].pc = "done"

\* C13: every call of record_once returns, whatever the driver delivers; while
\* the driver delivers nothing each iteration processes a zero-filled block
\* one q.get timeout after the previous one; and under starvation a session
\* that is RECORDING is ended by the silence stop.
C13_StarvedSessionEnds ==
    /\ \A s \in 1..MaxSessions :
            (session = s /\ pc = "listening") ~> (Len(results) >= s)
    /\ [][(fed' = fed + 1 /\ Deliveries = {Starved}) =>
            (now' = now + get_timeout_ms /\ (started' => Len(collected') = Len(collected) + 1))]_vars
    /\ (feed \in {"starved", "l2_starved"} /\ started /\ pc = "listening") ~>
            (pc = "stopped" /\ stop_reason = "silence")

\* a session that heard two loud blocks and then nothing was ended by the
\* silence stop on a zero-filled block
C13_Witness ==
    /\ feed = "l2_starved"
    /\ pc = "stopped"
    /\ stop_reason = "silence"
    /\ collected # << >>
    /\ collected[Len(collected)].synthetic

\* C14 (as claimed): no error raised in the capture loop's own calls after the
\* stream was first opened (encoding the artifact, opening the stream of the
\* next session) ends the process; the voice loop goes on.
C14_SyncErrorDoesNotEndLoop == proc # "crashed"

\* C15 (as claimed): when the process has been ended by Ctrl+C, by SIGTERM in
\* daemon mode or by ESC, the stream handle is closed.
C15_StreamClosedAtExit ==
    proc \in {"interrupt", "sigterm", "esc"} => stream = "closed"

\* C16 (as claimed): a job whose transcription returned has called the text
\* injection exactly once, with the transcript followed by the configured
\* separator (a space, nothing under --no-trailing-space), and a job whose
\* transcription raised has not called it.
C16_InjectedOncePerSuccess ==
    \A j \in DOMAIN jobs :
        jobs[j].pc \in {"finally", "done"} =>
            jobs[j].injected = IF jobs[j].outcome = "raise" THEN << >>
                               ELSE <<Transcript(jobs[j].outcome) \o
                                      (IF opts = "no_trailing" THEN "" ELSE " ")>>

\* The amplitude the loop of record_once sees in block n of a scripted input.
Heard(n) ==
    IF n <= Len(Script(feed)) /\ ~Script(feed)[n].synthetic THEN Script(feed)[n].amp ELSE 0

\* C17: the samples of every artifact are those of the blocks it was written
\* from, block after block and frame after frame; record_once accumulates the
\* contiguous run of processed blocks that starts at the first block reaching
\* the threshold and ends at the block processed last, each as it was
\* delivered, and writes exactly that run when the session has stopped; stop()
\* writes the blocks in the order of their delivery.
C17_ArtifactIsConcatenation ==
    /\ [](\A w \in DOMAIN wavs :
            /\ Len(wavs[w].samples) = Len(wavs[w].blocks) * FramesPerBlock
            /\ \A k \in DOMAIN wavs[w].blocks : \A i \in 1..FramesPerBlock :
                    wavs[w].samples[(k - 1) * FramesPerBlock + i] =
                        [block |-> wavs[w].blocks[k].seq, frame |-> i,
                         value |-> wavs[w].blocks[k].amp]
            /\ \A k \in 1..(Len(wavs[w].blocks) - 1) :
                    IF trigger = "voice"
                    THEN wavs[w].blocks[k + 1].seq = wavs[w].blocks[k].seq + 1
                    ELSE wavs[w].blocks[k + 1].seq > wavs[w].blocks[k].seq)
    /\ [](trigger = "voice" =>
            /\ started = (collected # << >>)
            /\ \A k \in DOMAIN collected :
                    /\ collected[k].seq = fed - Len(collected) + k
                    /\ feed # "free" => collected[k].amp = Heard(collected[k].seq)
            /\ collected # << >> => collected[1].amp >= silence_rms)
    /\ [][(trigger = "voice" /\ Len(wavs') > Len(wavs)) =>
            (/\ pc = "stopped"
             /\ Len(wavs') = Len(wavs) + 1
             /\ wavs'[Len(wavs')].blocks = collected
             /\ results' = Append(results, Len(wavs')))]_vars
    /\ [][(trigger = "key" /\ Len(wavs') > Len(wavs)) =>
            (/\ l_pc = "drain"
             /\ Len(wavs') = Len(wavs) + 1
             /\ wavs'[Len(wavs')].blocks = chunks
             /\ results' = Append(results, Len(wavs')))]_vars

\* an Utterance of a single block, written by record_once
C17_Witness ==
    /\ trigger = "voice"
    /\ \E w \in DOMAIN wavs :
        /\ Len(wavs[w].blocks) = 1
        /\ Len(wavs[w].samples) = FramesPerBlock

\* s is t or the beginning of t.
IsPrefix(s, t) == Len(s) <= Len(t) /\ SubSeq(t, 1, Len(s)) = s

\* C18: a stop() that finds at least one block in the queue goes on to drain
\* it, whatever the number and the level of the blocks; every block that was
\* in the queue then, and every block queued during the drain, is in the
\* chunks when the queue is found empty; and the drain ends by writing an
\* artifact from these chunks and returning it.
C18_StopAlwaysEmits ==
    /\ [][(l_pc = "stop" /\ l_pc' # "stop" /\ q # << >>) =>
            (l_pc' = "drain" /\ chunks' \o q' = q)]_vars
    /\ [][(l_pc = "drain" /\ l_pc' = "drain") => IsPrefix(chunks \o q, chunks' \o q')]_vars
    /\ [](l_pc = "drain" => chunks \o q # << >>)
    /\ [][(l_pc = "drain" /\ l_pc' # "drain") =>
            (/\ q = << >>
             /\ wavs' = Append(wavs, Artifact(chunks))
             /\ results' = Append(results, Len(wavs) + 1))]_vars

\* stop() returned an artifact of one silent block, 50 ms long
C18_Witness ==
    /\ trigger = "key"
    /\ \E k \in DOMAIN results :
        /\ results[k] # 0
        /\ Len(wavs[results[k]].blocks) = 1
        /\ wavs[results[k]].blocks[1].amp < silence_rms
        /\ DurationMs(wavs[results[k]].blocks) < cfg.min_speech_ms

\* What the driver delivers to iteration n of a scripted input.
Delivered(n) == IF n <= Len(Script(feed)) THEN Script(feed)[n] ELSE Starved

\* C19: a block handed over with a driver status is processed as the same
\* block without one.  In record_once the iteration that follows a delivery,
\* with a status or not, advances the clock by the block's time, sets started
\* by the block's level alone and accumulates the block if RECORDING, and the
\* process goes on; in PushToTalkRecorder a callback invocation, with a status
\* or not, goes on to queue its block exactly when the flag is set and changes
\* neither the flag nor the queue nor the listener.
C19_StatusIsNotFatal ==
    /\ [](proc = "running")
    /\ [][(trigger = "voice" /\ feed # "free" /\ fed' = fed + 1) =>
            LET d == Delivered(fed + 1)
                b == [seq |-> fed + 1, amp |-> d.amp, synthetic |-> d.synthetic]
            IN  /\ now' = now + d.dt
                /\ started' = (started \/ d.amp >= silence_rms)
                /\ last_voice_ts' = IF d.amp >= silence_rms THEN now' ELSE last_voice_ts
                /\ collected' = IF started' THEN Append(collected, b) ELSE collected
                /\ speech_ms' = Len(collected') * block_ms
                /\ UNCHANGED <<session, t0, outVars, stream>>]_vars
    /\ [][(trigger = "key" /\ captured' = captured + 1) =>
            /\ cb_pc' = IF flag THEN "put" ELSE "idle"
            /\ flag => cb_block' = Indata(captured + 1, starts)
            /\ UNCHANGED <<flag, q, rec_active, starts, lVars, outVars, stream>>]_vars
    /\ [][(trigger = "key" /\ cb_pc = "put" /\ cb_pc' = "idle") =>
            q' = Append(q, cb_block)]_vars

\* record_once has emitted the blocks 2..12 of the input whose blocks 1, 3
\* and 10 came with a status
C19_Witness ==
    /\ feed = "overrun"
    /\ Len(wavs) >= 1
    /\ results[1] = 1
    /\ Seqs(wavs[1].blocks) = 2..12
    /\ session = MaxSessions
    /\ pc = "idle"

\* C20: the level rms_level returns for a block of int16 samples is at least
\* 0.0 and at most 1.0, and it is 0.0 for the empty block and for a block of
\* zeros.
C20_LevelInUnitRange ==
    rms_out # NoLevel =>
        /\ 0 <= rms_out
        /\ rms_out <= Int16Scale
        /\ (\A i \in DOMAIN rms_in : rms_in[i] = 0) => rms_out = 0

\* a block of samples -32768 has the level 1.0
C20_Witness ==
    /\ Len(rms_in) = FramesPerBlock
    /\ \A i \in DOMAIN rms_in : rms_in[i] = -Int16Scale
    /\ rms_out = Int16Scale

\* C21: in record_once nothing is accumulated while the session is IDLE; the
\* iteration that leaves IDLE is the one whose block reaches the threshold (a
\* block below it leaves the session IDLE), and it makes that block the only
\* one accumulated; so every Utterance begins with the first block of its
\* session that reached the threshold, and under 3 silent, 10 loud, 40 silent
\* blocks the Utterance begins with block 4.
C21_AccumulatedOnlyWhileRecording ==
    /\ [](trigger = "voice" =>
            /\ ~started => collected = << >>
            /\ \A w \in DOMAIN wavs : wavs[w].blocks[1].amp >= silence_rms
            /\ (feed = "s3_l10_s40" /\ Len(wavs) >= 1) => wavs[1].blocks[1].seq = 4)
    /\ [][(trigger = "voice" /\ fed' = fed + 1 /\ ~started) =>
            IF started'
            THEN /\ Len(collected') = 1
                 /\ collected'[1].seq = fed + 1
                 /\ collected'[1].amp >= silence_rms
                 /\ feed # "free" => collected'[1].amp = Delivered(fed + 1).amp
            ELSE /\ collected' = << >>
                 /\ feed # "free" => Delivered(fed + 1).amp < silence_rms]_vars

\* three silent blocks were processed while IDLE and the Utterance emitted
\* holds the blocks from the fourth on
C21_Witness ==
    /\ feed = "s3_l10_s40"
    /\ results = <<1>>
    /\ wavs[1].blocks[1].seq = 4
    /\ Len(wavs[1].blocks) = 40

\* C22: a record_once call in which no block reached the threshold goes on
\* while now - t0 < max_ms and ends by the max stop; its return adds no
\* artifact and starts no job; the call that follows starts with an empty
\* accumulator, not started, zero speech duration, no voice timestamp and a
\* session start equal to the time of the call; the accumulator only ever
\* holds the latest blocks of the current call and the voice timestamp is
\* never older than the session start.
C22_UntriggeredSessionEndsAtMaxAndRearms ==
    /\ [](trigger = "voice" =>
            /\ pc = "listening" => now - t0 < cfg.max_ms
            /\ last_voice_ts # NoneTs => last_voice_ts >= t0
            /\ \A i \in DOMAIN collected : collected[i].seq = fed - Len(collected) + i)
    /\ [][(trigger = "voice" /\ pc = "stopped" /\ ~started /\ pc' # pc) =>
            /\ stop_reason = "max"
            /\ now - t0 >= cfg.max_ms
            /\ results' = Append(results, 0)
            /\ wavs' = wavs
            /\ jobs' = jobs]_vars
    /\ [][(trigger = "voice" /\ pc = "stopped" /\ pc' = "listening") =>
            /\ session' = session + 1
            /\ collected' = << >>
            /\ ~started'
            /\ speech_ms' = 0
            /\ last_voice_ts' = NoneTs
            /\ t0' = now'
            /\ now' = now]_vars

\* the first session heard nothing but timeout blocks and ended at the max
\* duration without an artifact or a job, and the second is under way
C22_Witness ==
    /\ feed = "starved"
    /\ session = 2
    /\ results = <<0>>
    /\ wavs = << >>
    /\ jobs = << >>
    /\ pc = "listening"
    /\ ~started
    /\ t0 >= cfg.max_ms
    /\ now > t0

\* The time the loop spent on a block: the timeout of q.get for a zero-filled
\* block, the cadence for a delivered one.
BlockDt(b) == IF b.synthetic THEN get_timeout_ms ELSE block_ms

\* The time at which the block that started the recording was processed:
\* now less the time spent on the blocks accumulated after it.
TriggerTs ==
    now - ( Cardinality({i \in 2..Len(collected) : collected[i].synthetic}) * get_timeout_ms
          + Cardinality({i \in 2..Len(collected) : ~collected[i].synthetic}) * block_ms )

\* The voice onset: the beginning of the block that started the recording.
OnsetTs == TriggerTs - block_ms

\* The deadline of the session: max_ms after the entry to record_once.
Deadline == t0 + cfg.max_ms

\* The session was started by voice and ended by the max stop.
CutOff == trigger = "voice" /\ pc = "stopped" /\ started /\ stop_reason = "max"

\* C23 as stated: the loop goes on while now is before t0 + max_ms and the max
\* stop is taken at or after it, whenever the voice began; and a session cut
\* off by the max stop whose voice onset is less than min_speech_ms before
\* the deadline is too short and returns None.
C23_OnsetWithinMinSpeechOfDeadlineIsDiscarded ==
    /\ [](trigger = "voice" =>
            /\ (pc = "listening" /\ started) => now < Deadline
            /\ (pc = "stopped" /\ stop_reason = "max") => now >= Deadline)
    /\ []((CutOff /\ Deadline - OnsetTs < cfg.min_speech_ms) =>
            TooShort(collected, speech_ms))
    /\ [][(CutOff /\ Deadline - OnsetTs < cfg.min_speech_ms /\ pc' # pc) =>
            (results' = Append(results, 0) /\ wavs' = wavs /\ jobs' = jobs)]_vars

\* C23 amended: the deadline is measured from the entry to record_once; the
\* block that crosses the deadline is accumulated before the cut, so a
\* session cut off by the max stop is discarded when its voice onset is at
\* most min_speech_ms - block_ms before the deadline.
C23_OnsetNearDeadlineIsDiscarded ==
    /\ [](trigger = "voice" =>
            /\ (pc = "listening" /\ started) => now < Deadline
            /\ (pc = "stopped" /\ stop_reason = "max") => now >= Deadline)
    /\ []((CutOff /\ Deadline - OnsetTs <= cfg.min_speech_ms - block_ms) =>
            TooShort(collected, speech_ms))
    /\ [][(CutOff /\ Deadline - OnsetTs <= cfg.min_speech_ms - block_ms /\ pc' # pc) =>
            (results' = Append(results, 0) /\ wavs' = wavs /\ jobs' = jobs)]_vars

\* a voice that began at most min_speech_ms - block_ms before the deadline and
\* went on to the cut: several loud blocks, the last one loud, returned as None
C23_Witness ==
    /\ trigger = "voice"
    /\ results = <<0>>
    /\ started
    /\ stop_reason = "max"
    /\ Deadline - OnsetTs <= cfg.min_speech_ms - block_ms
    /\ Len(collected) >= 2
    /\ \A i \in DOMAIN collected : collected[i].amp >= silence_rms
    /\ wavs = << >>

\* The session ended through the silence stop and every block accumulated in
\* it was delivered at cadence (none is the zero-filled block of a timeout).
SilenceStoppedAtCadence ==
    /\ trigger = "voice"
    /\ pc = "stopped"
    /\ stop_reason = "silence"
    /\ \A i \in DOMAIN collected : ~collected[i].synthetic

\* C24: a session that ended through the silence stop with its blocks
\* delivered at cadence has speech_ms >= silence_ms_to_stop, the silent blocks
\* after the voice being counted; when silence_ms_to_stop >= min_speech_ms it
\* is not too short, and its return writes an artifact and starts a job.
C24_SilenceStoppedHasSilenceStopMs ==
    /\ [](SilenceStoppedAtCadence =>
            /\ speech_ms >= cfg.silence_ms_to_stop
            /\ cfg.silence_ms_to_stop >= cfg.min_speech_ms => ~TooShort(collected, speech_ms))
    /\ [][(SilenceStoppedAtCadence /\ cfg.silence_ms_to_stop >= cfg.min_speech_ms /\ pc' # pc) =>
            /\ results' = Append(results, Len(wavs) + 1)
            /\ Len(wavs') = Len(wavs) + 1
            /\ Len(jobs') = Len(jobs) + 1]_vars

\* 100 ms of voice, below min_speech_ms, followed by silence at cadence: the
\* session stops by silence with 1600 ms of speech duration
C24_Witness ==
    /\ SilenceStoppedAtCadence
    /\ feed = "l2_silence"
    /\ cfg.silence_ms_to_stop >= cfg.min_speech_ms
    /\ Cardinality({i \in DOMAIN collected : collected[i].amp >= silence_rms}) * block_ms
          < cfg.min_speech_ms
    /\ speech_ms = 2 * block_ms + cfg.silence_ms_to_stop

\* C26: in record_once the speech duration is block_ms times the number of
\* accumulated blocks at every point of the loop, and both are zero while the
\* session has not started.
C26_SpeechMsIsBlockCount ==
    [](trigger = "voice" =>
        /\ speech_ms = block_ms * Len(collected)
        /\ ~started => (speech_ms = 0 /\ Len(collected) = 0))

\* a recording under way that holds loud and silent blocks
C26_Witness ==
    /\ trigger = "voice"
    /\ pc = "listening"
    /\ started
    /\ \E i \in DOMAIN collected : collected[i].amp < silence_rms
    /\ Len(collected) >= 3
    /\ speech_ms = block_ms * Len(collected)

\* C25: a hotkey press handled in hold mode while the recorder is recording
\* changes nothing of the recorder: the flag, the queue, the count of start()
\* calls and the listener stay as they are; start() is called only by a press
\* handled while the recorder is idle, the queue loses blocks only inside
\* start() and stop(), and stop() is called only by a release (hold mode) or
\* a press (toggle mode) handled while the recorder is recording.
C25_RepeatedPressDoesNotRestart ==
    [][trigger = "key" =>
        /\ (last_key' = "repeat" /\ last_key # "repeat") =>
              /\ mode = "hold" /\ flag
              /\ UNCHANGED <<flag, q, starts, rec_active, l_pc, chunks, cb_pc, cb_block>>
        /\ starts' # starts =>
              /\ starts' = starts + 1
              /\ ~flag /\ l_pc = "idle"
              /\ last_key' = "press"
        /\ (~IsPrefix(q, q')) => l_pc \in {"start", "drain"}
        /\ l_pc' = "start" => (starts' = starts + 1 \/ l_pc = "start")
        /\ (l_pc' = "stop" /\ l_pc # "stop") =>
              /\ flag /\ ~flag' /\ l_pc = "idle"
              /\ last_key' = (IF mode = "hold" THEN "release" ELSE "press")
        /\ (flag /\ ~flag') => l_pc' = "stop"]_vars

\* hold mode: blocks were buffered, a repeated press was handled and the
\* recorder is still recording its first start() with the blocks in the queue
C25_Witness ==
    /\ trigger = "key"
    /\ mode = "hold"
    /\ last_key = "repeat"
    /\ flag
    /\ starts = 1
    /\ Len(q) >= 2
    /\ l_pc = "idle"

====
